---- MODULE Spec2Model ----
(***************************************************************************)
(* Model of notebooks/data_processing_ext/src/lib.rs: five batch           *)
(* operations exported to Python (create_histograms_batch,                 *)
(* weighted_mean_batch, find_peaks_batch, estimate_gaussian_params_batch,  *)
(* normalize_channels_batch).                                              *)
(*                                                                         *)
(* Numbers.  Every input is a small integer (or a ratio of two), on which  *)
(* f64 addition and multiplication are exact.  A quotient is kept as the   *)
(* exact fraction n/d in lowest terms; division by zero gives the IEEE     *)
(* results NaN (0/0) and +-inf (x/0).  A square root is kept symbolically  *)
(* (see Sqrt, SigmaFromFwhm).                                              *)
(*                                                                         *)
(* Parallelism.  par_bridge() hands the items of a sequential iterator to  *)
(* the pool's workers one next() at a time; each worker folds its results  *)
(* into a vector of its own and collect() concatenates the workers'        *)
(* vectors in worker order.  par_iter() on a Vec is indexed: every result  *)
(* is written to the slot of its index.                                    *)
(***************************************************************************)
EXTENDS Integers, Sequences, FiniteSets

VARIABLES
    args,     \* the arguments of the call (read-only during the call)
    next,     \* par_bridge: index of the item the shared iterator yields next
    local,    \* par_bridge: per worker, the results it has folded so far
    slots,    \* par_iter: per input index, the closure's result or Pending
    out,      \* the value returned to the caller (NoValue until the call ends)
    src,      \* history: for each entry of out, the input row it was computed from
    status    \* "running" | "ok" | "panic"

vars == <<args, next, local, slots, out, src, status>>

----
\* Bounds of the model.

\* Number of pool threads that pull from a par_bridge iterator.
NumWorkers == 2
\* A 2-D input holds at most this many entries (rows * columns).
MaxCells == 4

Workers == 1..NumWorkers
NoValue == <<>>

----
\* f64 values: [k |-> "fin", n, d] is n/d (d > 0, lowest terms),
\* [k |-> "inf", n |-> sign], [k |-> "nan"].

Abs(x) == IF x < 0 THEN -x ELSE x
Sign(x) == IF x < 0 THEN -1 ELSE IF x > 0 THEN 1 ELSE 0

RECURSIVE Gcd(_, _)
Gcd(a, b) == IF b = 0 THEN a ELSE Gcd(b, a % b)

NaN == [k |-> "nan", n |-> 0, d |-> 1]
Inf(s) == [k |-> "inf", n |-> s, d |-> 1]

\* n/d for integers n, d with d # 0.
Frac(n, d) ==
    LET g == Gcd(Abs(n), Abs(d))
        s == Sign(d)
    IN  [k |-> "fin", n |-> s * (n \div g), d |-> s * (d \div g)]

F(i) == Frac(i, 1)
Zero == F(0)
One == F(1)

IsFin(x) == x.k = "fin"
IsNaN(x) == x.k = "nan"

FNeg(x) == IF IsFin(x) THEN Frac(-x.n, x.d)
           ELSE IF IsNaN(x) THEN NaN ELSE Inf(-x.n)

FAdd(x, y) ==
    IF IsNaN(x) \/ IsNaN(y) THEN NaN
    ELSE IF IsFin(x) /\ IsFin(y) THEN Frac(x.n * y.d + y.n * x.d, x.d * y.d)
    ELSE IF IsFin(x) THEN y
    ELSE IF IsFin(y) THEN x
    ELSE IF x.n = y.n THEN x ELSE NaN

FSub(x, y) == FAdd(x, FNeg(y))

FMul(x, y) ==
    IF IsNaN(x) \/ IsNaN(y) THEN NaN
    ELSE IF IsFin(x) /\ IsFin(y) THEN Frac(x.n * y.n, x.d * y.d)
    ELSE IF Sign(x.n) * Sign(y.n) = 0 THEN NaN
    ELSE Inf(Sign(x.n) * Sign(y.n))

FDiv(x, y) ==
    IF IsNaN(x) \/ IsNaN(y) THEN NaN
    ELSE IF IsFin(x) /\ IsFin(y) THEN
        IF y.n # 0 THEN Frac(x.n * y.d, x.d * y.n)
        ELSE IF x.n = 0 THEN NaN ELSE Inf(Sign(x.n))
    ELSE IF IsFin(y) THEN Inf(x.n * (IF y.n < 0 THEN -1 ELSE 1))
    ELSE IF IsFin(x) THEN Zero
    ELSE NaN

\* powi(2)
FSqr(x) == FMul(x, x)

\* x < y, x <= y on f64: false whenever an operand is NaN.
FLt(x, y) ==
    /\ ~IsNaN(x) /\ ~IsNaN(y)
    /\ IF IsFin(x) /\ IsFin(y) THEN x.n * y.d < y.n * x.d
       ELSE IF IsFin(x) THEN y.n > 0
       ELSE IF IsFin(y) THEN x.n < 0
       ELSE x.n < y.n
FEq(x, y) == ~IsNaN(x) /\ ~IsNaN(y) /\ x = y
FLe(x, y) == FLt(x, y) \/ FEq(x, y)
FGe(x, y) == FLe(y, x)

\* f64::max / f64::min: the other operand when one is NaN.
FMax(x, y) == IF IsNaN(x) THEN y ELSE IF IsNaN(y) THEN x
              ELSE IF FLt(x, y) THEN y ELSE x
FMin(x, y) == IF IsNaN(x) THEN y ELSE IF IsNaN(y) THEN x
              ELSE IF FLt(y, x) THEN y ELSE x

\* Sum of the integers of a sequence (`.sum()` on exact inputs).
RECURSIVE SumSeq(_)
SumSeq(s) == IF s = <<>> THEN 0 ELSE s[1] + SumSeq(Tail(s))

Min2(a, b) == IF a < b THEN a ELSE b

\* Catenation of the workers' vectors, worker 1 first.
RECURSIVE Concat(_, _)
Concat(vecs, w) ==
    IF w > NumWorkers THEN <<>> ELSE vecs[w] \o Concat(vecs, w + 1)

\* All r x c matrices over S with r * c <= MaxCells, r, c >= 1.
Shapes == {rc \in (1..MaxCells) \X (1..MaxCells) : rc[1] * rc[2] <= MaxCells}
Matrices(r, c, S) == [1..r -> [1..c -> S]]

----
\* The shared part of the three row-parallel operations.

ParBridgeInit ==
    /\ next = 1
    /\ local = [w \in Workers |-> <<>>]
    /\ slots = NoValue
    /\ out = NoValue
    /\ src = NoValue
    /\ status = "running"

----
\* weighted_mean_batch

\* The closure without its zero-weight guard.
WeightedMeanRowUnguarded(val_row, weight_row) ==
    LET total_weight == SumSeq(weight_row)
        m == Min2(Len(val_row), Len(weight_row))
        weighted_sum == SumSeq([j \in 1..m |-> val_row[j] * weight_row[j]])
    IN  FDiv(F(weighted_sum), F(total_weight))

\* The closure of lines 82-95 applied to one (val_row, weight_row) pair.
\* zip stops at the shorter of the two rows; weight_row.sum() runs over the
\* whole weight row.
WeightedMeanRow(val_row, weight_row) ==
    LET total_weight == SumSeq(weight_row)
        m == Min2(Len(val_row), Len(weight_row))
        weighted_sum == SumSeq([j \in 1..m |-> val_row[j] * weight_row[j]])
    IN  IF total_weight = 0 THEN Zero
        ELSE FDiv(F(weighted_sum), F(total_weight))

\* Rows the zipped axis iterators yield.
WMeanItems == Min2(Len(args.values), Len(args.weights))

\* One worker takes the next row pair under the iterator's lock, applies the
\* closure and folds the result into its own vector.
WMeanWorker(w) ==
    /\ status = "running"
    /\ next <= WMeanItems
    /\ local' = [local EXCEPT ![w] = Append(@,
           [row |-> next,
            val |-> WeightedMeanRow(args.values[next], args.weights[next])])]
    /\ next' = next + 1
    /\ UNCHANGED <<args, slots, out, src, status>>

\* collect() once the iterator is exhausted; Array1::from_vec; Ok(..).
WMeanCollect ==
    /\ status = "running"
    /\ next > WMeanItems
    /\ LET all == Concat(local, 1)
       IN  /\ out' = [i \in 1..Len(all) |-> all[i].val]
           /\ src' = [i \in 1..Len(all) |-> all[i].row]
    /\ status' = "ok"
    /\ UNCHANGED <<args, next, local, slots>>

\* (value, weight) pairs an entry of a same-shape call is drawn from.
WMeanCells == {<<1, 0>>, <<1, 1>>, <<2, 1>>, <<2, -1>>}
WMeanVals == {c[1] : c \in WMeanCells}
WMeanWts == {c[2] : c \in WMeanCells}

\* Calls with values and weights of one shape.
InitWMean ==
    /\ \E rc \in Shapes :
         \E m \in Matrices(rc[1], rc[2], WMeanCells) :
           args = [values  |-> [i \in 1..rc[1] |-> [j \in 1..rc[2] |-> m[i][j][1]]],
                   weights |-> [i \in 1..rc[1] |-> [j \in 1..rc[2] |-> m[i][j][2]]]]
    /\ ParBridgeInit

\* Calls with values and weights of any two shapes.
InitWMeanAnyShape ==
    /\ \E vs \in Shapes, ws \in Shapes :
         \E v \in Matrices(vs[1], vs[2], WMeanVals) :
           \E wt \in Matrices(ws[1], ws[2], WMeanWts) :
             args = [values |-> v, weights |-> wt]
    /\ ParBridgeInit

NextWMean == (\E w \in Workers : WMeanWorker(w)) \/ WMeanCollect

SpecWMean == InitWMean /\ [][NextWMean]_vars
SpecWMeanAnyShape == InitWMeanAnyShape /\ [][NextWMean]_vars

Rows(m) == Len(m)
Cols(m) == IF Len(m) = 0 THEN 0 ELSE Len(m[1])
SameShape(a, b) == Rows(a) = Rows(b) /\ Cols(a) = Cols(b)

\* Every result a worker has folded, tagged with its row.
Folded == UNION {{local[w][k] : k \in DOMAIN local[w]} : w \in Workers}

\* sum_j values[r][j] * weights[r][j] and sum_j weights[r][j] of row r.
RowDot(r) == SumSeq([j \in 1..Cols(args.values) |->
                        args.values[r][j] * args.weights[r][j]])
RowWeight(r) == SumSeq(args.weights[r])

\* C1: output index i holds the result computed from input row i, under every
\* interleaving of the workers (stated for weighted_mean_batch; find_peaks_batch
\* and estimate_gaussian_params_batch collect through the same par_bridge).
C1_RowOrderPreserved ==
    status = "ok" =>
        /\ Len(out) = Rows(args.values)
        /\ \A i \in DOMAIN out :
             IF RowWeight(i) = 0 THEN out[i] = Zero
             ELSE out[i] = Frac(RowDot(i), RowWeight(i))

\* C2: a call whose values and weights differ in shape never returns means.
C2_ShapeMismatchRejected ==
    ~SameShape(args.values, args.weights) => status # "ok"

\* C6: the result computed for a row is 0.0 when the row's weights sum to zero
\* (never the NaN or inf of a division by zero) and otherwise the quotient
\* sum(v * w) / sum(w); a returned call holds exactly one result per row, each
\* the result of its own row, whatever the other rows are.
C6_WeightedMeanPerRow ==
    /\ \A e \in Folded :
         IF RowWeight(e.row) = 0 THEN e.val = Zero
         ELSE /\ IsFin(e.val)
              /\ e.val.n * RowWeight(e.row) = e.val.d * RowDot(e.row)
    /\ status = "ok" =>
         /\ Len(out) = Rows(args.values)
         /\ {src[i] : i \in DOMAIN src} = 1..Rows(args.values)
         /\ \A i \in DOMAIN out :
              [row |-> src[i], val |-> out[i]] \in Folded

\* A returned call with a zero-weight row whose products do not sum to zero
\* next to a row of non-zero weight.
C6_Witness ==
    /\ status = "ok"
    /\ \E r, q \in DOMAIN out :
         /\ RowWeight(src[r]) = 0 /\ RowDot(src[r]) # 0 /\ out[r] = Zero
         /\ RowWeight(src[q]) # 0 /\ out[q] # Zero

----
\* find_peaks_batch

\* Lines 119-129 and 181-191: the indices whose bin center lies in [lo, hi],
\* in ascending order.
RECURSIVE IndicesInRange(_, _, _, _)
IndicesInRange(bins, lo, hi, i) ==
    IF i > Len(bins) THEN <<>>
    ELSE (IF FGe(F(bins[i]), lo) /\ FLe(F(bins[i]), hi) THEN <<i>> ELSE <<>>)
         \o IndicesInRange(bins, lo, hi, i + 1)

\* Lines 136-144: the loop over valid_indices, from (max_val, max_idx).
RECURSIVE PeakScan(_, _, _, _)
PeakScan(hist_row, valid_indices, max_val, max_idx) ==
    IF valid_indices = <<>> THEN max_idx
    ELSE LET idx == Head(valid_indices)
         IN  IF hist_row[idx] > max_val
             THEN PeakScan(hist_row, Tail(valid_indices), hist_row[idx], idx)
             ELSE PeakScan(hist_row, Tail(valid_indices), max_val, max_idx)

\* The closure of lines 117-147 applied to one histogram row.  max_idx starts
\* at the first bin (index 0 in the source, 1 here) and max_val at 0.0.
PeakOfRow(hist_row, bins, range_min, range_max) ==
    LET valid_indices == IndicesInRange(bins, F(range_min), F(range_max), 1)
    IN  IF valid_indices = <<>> THEN Zero
        ELSE F(bins[PeakScan(hist_row, valid_indices, 0, 1)])

PeaksWorker(w) ==
    /\ status = "running"
    /\ next <= Len(args.histograms)
    /\ local' = [local EXCEPT ![w] = Append(@,
           [row |-> next,
            val |-> PeakOfRow(args.histograms[next], args.bin_centers,
                              args.range_min, args.range_max)])]
    /\ next' = next + 1
    /\ UNCHANGED <<args, slots, out, src, status>>

PeaksCollect ==
    /\ status = "running"
    /\ next > Len(args.histograms)
    /\ LET all == Concat(local, 1)
       IN  /\ out' = [i \in 1..Len(all) |-> all[i].val]
           /\ src' = [i \in 1..Len(all) |-> all[i].row]
    /\ status' = "ok"
    /\ UNCHANGED <<args, next, local, slots>>

PeakCounts == {0, 1, 2}

\* Histogram rows of c bins, bin centers 1..c, and a search window.
InitPeaks ==
    /\ \E rc \in Shapes :
         \E h \in Matrices(rc[1], rc[2], PeakCounts) :
           \E lo \in 0..rc[2], hi \in 1..(rc[2] + 1) :
             args = [histograms |-> h,
                     bin_centers |-> [j \in 1..rc[2] |-> j],
                     range_min |-> lo, range_max |-> hi]
    /\ ParBridgeInit

NextPeaks == (\E w \in Workers : PeaksWorker(w)) \/ PeaksCollect

SpecPeaks == InitPeaks /\ [][NextPeaks]_vars

\* Bin indices whose center lies in the search window.
InWindow == {j \in DOMAIN args.bin_centers :
                args.range_min <= args.bin_centers[j]
                /\ args.bin_centers[j] <= args.range_max}

\* The lowest index of greatest count among the bins of the window.
ArgmaxInWindow(r) ==
    CHOOSE j \in InWindow :
        \A i \in InWindow :
            \/ args.histograms[r][i] < args.histograms[r][j]
            \/ (args.histograms[r][i] = args.histograms[r][j] /\ j <= i)

\* C3: for a row with a bin center in [range_min, range_max], the peak is the
\* center of the lowest-indexed bin of greatest count among the bins of the
\* window, and so lies in the window itself.
C3_PeakIsWindowArgmax ==
    InWindow # {} =>
        \A e \in Folded :
            /\ e.val = F(args.bin_centers[ArgmaxInWindow(e.row)])
            /\ FGe(e.val, F(args.range_min)) /\ FLe(e.val, F(args.range_max))

----
\* estimate_gaussian_params_batch

\* Line 193: a fit window of fewer bins than this gives the all-zero row.
MinFitPoints == 10
\* Line 226: more windowed counts than this and the offset is y[len / 10].
PercentileMinLen == 10
\* Line 227
PercentileDiv == 10
\* Line 220
FallbackSigmaDiv == 6
\* Bins of a histogram row beyond MinFitPoints.
ExtraBins == 2
\* Rows of a histogram matrix.
MaxGaussRows == 2

NumBins == MinFitPoints + ExtraBins

ZeroRow == <<Zero, Zero, Zero, Zero>>

\* Line 204: fold(0.0, max) over the windowed counts.
RECURSIVE FoldMax(_, _)
FoldMax(ys, acc) ==
    IF ys = <<>> THEN acc ELSE FoldMax(Tail(ys), FMax(acc, Head(ys)))

\* Line 216: fold(INFINITY, min).
RECURSIVE FoldMin(_, _)
FoldMin(xs, acc) ==
    IF xs = <<>> THEN acc ELSE FoldMin(Tail(xs), FMin(acc, Head(xs)))

\* Lines 209-212: the centers whose count is at least half_max.
RECURSIVE AboveHalf(_, _)
AboveHalf(fit_data, half_max) ==
    IF fit_data = <<>> THEN <<>>
    ELSE (IF FGe(Head(fit_data)[2], half_max)
          THEN <<Head(fit_data)[1]>> ELSE <<>>)
         \o AboveHalf(Tail(fit_data), half_max)

\* Line 225: sort ascending.
RECURSIVE InsertSorted(_, _)
InsertSorted(y, s) ==
    IF s = <<>> THEN <<y>>
    ELSE IF FLe(y, Head(s)) THEN <<y>> \o s
    ELSE <<Head(s)>> \o InsertSorted(y, Tail(s))
RECURSIVE SortAsc(_)
SortAsc(s) == IF s = <<>> THEN <<>> ELSE InsertSorted(Head(s), SortAsc(Tail(s)))

\* Line 218: fwhm / (2.0 * (2.0f64.ln()).sqrt()), that is fwhm / (2 * sqrt(ln 2)).
\* The irrational divisor is kept as the kind of the value: n/d over sqrt(ln 2).
SigmaFromFwhm(fwhm) ==
    LET q == FDiv(fwhm, F(2))
    IN  IF IsFin(q) /\ q.n # 0
        THEN [k |-> "over_sqrt_ln2", n |-> q.n, d |-> q.d]
        ELSE q

\* A gate that lets a window of MinFitPoints - 1 bins through.
TooFewFitPointsOffByOne(n) == n < MinFitPoints - 1

\* Line 193
TooFewFitPoints(n) == n < MinFitPoints

\* The closure of lines 172-233 applied to one (hist_row, peak_pos) pair.
GaussRow(hist_row, bins, peak_pos, fit_fraction_low, fit_fraction_high) ==
    IF peak_pos = 0 THEN ZeroRow
    ELSE
    LET fit_min == FMul(fit_fraction_low, F(peak_pos))
        fit_max == FMul(fit_fraction_high, F(peak_pos))
        fit_indices == IndicesInRange(bins, fit_min, fit_max, 1)
    IN  IF TooFewFitPoints(Len(fit_indices)) THEN ZeroRow
        ELSE
        LET fit_data == [i \in DOMAIN fit_indices |->
                            <<F(bins[fit_indices[i]]), F(hist_row[fit_indices[i]])>>]
            ys == [i \in DOMAIN fit_data |-> fit_data[i][2]]
            amplitude == FoldMax(ys, Zero)
            mean == F(peak_pos)
            half_max == FDiv(amplitude, F(2))
            above_half == AboveHalf(fit_data, half_max)
            sigma == IF Len(above_half) > 1
                     THEN LET max_val == FoldMax(above_half, Zero)
                              min_val == FoldMin(above_half, Inf(1))
                          IN  SigmaFromFwhm(FSub(max_val, min_val))
                     ELSE FDiv(FSub(fit_max, fit_min), F(FallbackSigmaDiv))
            y_values == SortAsc(ys)
            offset == IF Len(y_values) > PercentileMinLen
                      THEN y_values[(Len(y_values) \div PercentileDiv) + 1]
                      ELSE y_values[1]
        IN  <<amplitude, mean, sigma, offset>>

\* Rows the zipped (row, peak) iterator yields.
GaussItems == Min2(Len(args.histograms), Len(args.peak_positions))

GaussWorker(w) ==
    /\ status = "running"
    /\ next <= GaussItems
    /\ local' = [local EXCEPT ![w] = Append(@,
           [row |-> next,
            val |-> GaussRow(args.histograms[next], args.bin_centers,
                             args.peak_positions[next],
                             args.fit_fraction_low, args.fit_fraction_high)])]
    /\ next' = next + 1
    /\ UNCHANGED <<args, slots, out, src, status>>

\* Lines 234-241: collect, flatten, from_shape_vec((nrows, 4)).expect(..).
GaussCollect ==
    /\ status = "running"
    /\ next > GaussItems
    /\ LET all == Concat(local, 1)
           flat_len == SumSeq([i \in 1..Len(all) |-> Len(all[i].val)])
       IN  IF flat_len = Len(args.histograms) * 4
           THEN /\ out' = [i \in 1..Len(all) |-> all[i].val]
                /\ src' = [i \in 1..Len(all) |-> all[i].row]
                /\ status' = "ok"
           ELSE /\ status' = "panic"
                /\ UNCHANGED <<out, src>>
    /\ UNCHANGED <<args, next, local, slots>>

\* A histogram row: background b plus a triangle of height h and slope s
\* centred on bin p.
TriangleRow(p, h, s, b) ==
    [j \in 1..NumBins |->
        b + (IF h - s * Abs(j - p) > 0 THEN h - s * Abs(j - p) ELSE 0)]

\* (p, h, s, b): a triangle, a single-bin spike, an empty row, a triangle on
\* a background.
GaussShapes == {<<8, 6, 2, 0>>, <<8, 5, 5, 0>>, <<8, 0, 1, 0>>, <<7, 4, 1, 1>>}
GaussPeaks == {0, 8, 9}
GaussLows == {Frac(1, 4), Frac(3, 8), Frac(1, 2)}
GaussHighs == {Frac(3, 2)}

InitGauss ==
    /\ \E r \in 1..MaxGaussRows :
         \E hs \in [1..r -> GaussShapes], ps \in [1..r -> GaussPeaks] :
           \E lo \in GaussLows, hi \in GaussHighs :
             args = [histograms |->
                        [i \in 1..r |->
                            TriangleRow(hs[i][1], hs[i][2], hs[i][3], hs[i][4])],
                     bin_centers |-> [j \in 1..NumBins |-> j],
                     peak_positions |-> ps,
                     fit_fraction_low |-> lo,
                     fit_fraction_high |-> hi]
    /\ ParBridgeInit

NextGauss == (\E w \in Workers : GaussWorker(w)) \/ GaussCollect

SpecGauss == InitGauss /\ [][NextGauss]_vars

\* Bin indices whose center lies in row r's fit window
\* [fit_fraction_low * peak, fit_fraction_high * peak].
FitWindow(r) ==
    LET pk == args.peak_positions[r]
        lo == args.fit_fraction_low
        hi == args.fit_fraction_high
    IN  {j \in DOMAIN args.bin_centers :
            /\ lo.n * pk <= args.bin_centers[j] * lo.d
            /\ args.bin_centers[j] * hi.d <= hi.n * pk}

Degenerate(r) ==
    args.peak_positions[r] = 0 \/ Cardinality(FitWindow(r)) < 10

\* C7: a row whose peak position is 0.0 or whose fit window holds fewer than
\* 10 bin centers gives exactly [0,0,0,0], whatever its counts; every row gives
\* one 4-entry row, and the returned matrix has one row per histogram row.
C7_DegenerateRowsAreZero ==
    /\ \A e \in Folded :
         /\ Len(e.val) = 4
         /\ Degenerate(e.row) => e.val = ZeroRow
    /\ status # "panic"
    /\ status = "ok" =>
         /\ Len(out) = Len(args.histograms)
         /\ {src[i] : i \in DOMAIN src} = 1..Len(args.histograms)
         /\ \A i \in DOMAIN out :
              [row |-> src[i], val |-> out[i]] \in Folded

\* A returned matrix with the zero row of a 9-bin window (non-zero peak,
\* non-zero counts) next to the non-zero row of a full window.
C7_Witness ==
    /\ status = "ok"
    /\ \E r, q \in DOMAIN out :
         /\ args.peak_positions[src[r]] # 0
         /\ Cardinality(FitWindow(src[r])) = 9
         /\ \E j \in FitWindow(src[r]) : args.histograms[src[r]][j] > 0
         /\ out[r] = ZeroRow
         /\ ~Degenerate(src[q]) /\ out[q] # ZeroRow

\* Centers of row r's fit window whose count is at least half the greatest
\* count of the window.
HalfMaxCenters(r) ==
    LET W == FitWindow(r)
        amp == CHOOSE a \in {args.histograms[r][j] : j \in W} :
                   \A j \in W : args.histograms[r][j] <= a
    IN  {args.bin_centers[j] : j \in {i \in W : 2 * args.histograms[r][i] >= amp}}

SetMax(S) == CHOOSE x \in S : \A y \in S : y <= x
SetMin(S) == CHOOSE x \in S : \A y \in S : x <= y

\* fwhm / (2 * sqrt(2 * ln 2)): n/d over sqrt(2 ln 2).
StandardSigma(fwhm) ==
    IF fwhm = 0 THEN Zero
    ELSE [k |-> "over_sqrt_2ln2", n |-> Frac(fwhm, 2).n, d |-> Frac(fwhm, 2).d]

\* C8: for a non-degenerate row, sigma is (max - min of the half-maximum
\* centers) / (2 * sqrt(2 * ln 2)) when at least 2 centers qualify, and
\* (fit_max - fit_min) / 6 otherwise.
C8_SigmaFromFwhm ==
    \A e \in Folded :
        ~Degenerate(e.row) =>
            LET H == HalfMaxCenters(e.row)
                pk == F(args.peak_positions[e.row])
            IN  IF Cardinality(H) >= 2
                THEN e.val[3] = StandardSigma(SetMax(H) - SetMin(H))
                ELSE e.val[3] = FDiv(FSub(FMul(args.fit_fraction_high, pk),
                                          FMul(args.fit_fraction_low, pk)), F(6))

----
\* normalize_channels_batch

\* Targets (and their errors) of a call; reference means of a call.
MaxTargets == 2
MaxRefs == 3

\* f64::sqrt, kept symbolic: [k |-> "sqrt", n, d] is sqrt(n/d) for n/d > 0.
Sqrt(x) ==
    IF IsFin(x)
    THEN IF x.n = 0 THEN Zero
         ELSE IF x.n < 0 THEN NaN
         ELSE [k |-> "sqrt", n |-> x.n, d |-> x.d]
    ELSE IF IsNaN(x) THEN NaN
    ELSE IF x.n > 0 THEN x ELSE NaN

RECURSIVE FSumSeq(_)
FSumSeq(s) == IF s = <<>> THEN Zero ELSE FAdd(Head(s), FSumSeq(Tail(s)))

\* A mean that forgets to divide by the number of references.
RefAvgAsSum(refs) ==
    IF Len(refs) = 0 THEN Zero ELSE F(SumSeq(refs))

\* Line 257: refs.mean().unwrap_or(0.0); mean() is None on an empty array.
RefAvg(refs) ==
    IF Len(refs) = 0 THEN Zero ELSE FDiv(F(SumSeq(refs)), F(Len(refs)))

\* Lines 258-265: the sample variance whose square root is ref_std
\* (0.0 for fewer than 2 references).
RefVariance(refs) ==
    IF Len(refs) > 1
    THEN FDiv(FSumSeq([i \in DOMAIN refs |->
                          FSqr(FSub(F(refs[i]), RefAvg(refs)))]),
              F(Len(refs) - 1))
    ELSE Zero

\* Line 268
Ratio(t, ref_avg) == FDiv(F(t), ref_avg)

\* Lines 272-274.  ref_std = sqrt(variance) enters only through
\* (t * ref_std / ref_avg^2)^2, which is t^2 * variance / ref_avg^4 on the
\* reals and has the same NaN and inf cases when ref_avg is 0.
RatioError(t, t_err, ref_avg, variance) ==
    LET term1 == FSqr(FDiv(F(t_err), ref_avg))
        term2 == FDiv(FMul(FSqr(F(t)), variance), FSqr(FSqr(ref_avg)))
    IN  Sqrt(FAdd(term1, term2))

\* The whole call: zip(targets, target_errs) stops at the shorter array.
NormalizeCall ==
    /\ status = "running"
    /\ LET targets == args.target_means
           target_errs == args.target_errors
           ref_avg == RefAvg(args.reference_means)
           variance == RefVariance(args.reference_means)
           m == Min2(Len(targets), Len(target_errs))
       IN  out' = [ratio |-> [i \in DOMAIN targets |-> Ratio(targets[i], ref_avg)],
                   ratio_error |-> [i \in 1..m |->
                       RatioError(targets[i], target_errs[i], ref_avg, variance)]]
    /\ status' = "ok"
    /\ UNCHANGED <<args, next, local, slots, src>>

SeqsUpTo(S, n) == UNION {[1..k -> S] : k \in 0..n}

NormMeans == {0, 1, 2}
NormErrors == {0, 1}
NormRefs == {-1, 0, 1, 2}

InitNorm ==
    /\ \E tm \in SeqsUpTo(NormMeans, MaxTargets),
          te \in SeqsUpTo(NormErrors, MaxTargets),
          rm \in SeqsUpTo(NormRefs, MaxRefs) :
         args = [target_means |-> tm, target_errors |-> te,
                 reference_means |-> rm]
    /\ ParBridgeInit

NextNorm == NormalizeCall

SpecNorm == InitNorm /\ [][NextNorm]_vars

\* Every reference mean equals r, and there is at least one.
AllRefsEqual(r) ==
    /\ Len(args.reference_means) > 0
    /\ \A i \in DOMAIN args.reference_means : args.reference_means[i] = r

\* Targets with mean r and error 0.
MatchingTargets(r) ==
    {i \in DOMAIN args.target_means :
        /\ i \in DOMAIN args.target_errors
        /\ args.target_means[i] = r
        /\ args.target_errors[i] = 0}

RoundTrip(r) ==
    \A i \in MatchingTargets(r) :
        out.ratio[i] = One /\ out.ratio_error[i] = Zero

\* C9 as stated: for every r, if all reference means equal r, a target of mean
\* r and error 0 has ratio 1.0 and ratio_error 0.0.
C9_RoundTripEveryR ==
    status = "ok" => \A r \in NormRefs : AllRefsEqual(r) => RoundTrip(r)

\* C9 amended: the same for every r other than 0.
C9_RoundTripNonZeroR ==
    status = "ok" =>
        \A r \in NormRefs \ {0} : AllRefsEqual(r) => RoundTrip(r)

\* A returned call with several equal non-zero references and a matching target.
C9_Witness ==
    /\ status = "ok"
    /\ \E r \in NormRefs \ {0} :
         /\ AllRefsEqual(r)
         /\ Len(args.reference_means) >= 2
         /\ MatchingTargets(r) # {}
         /\ \E i \in DOMAIN args.target_means : i \notin MatchingTargets(r)

\* C10: the call returns one (ratio, ratio_error) pair per target, and fails
\* when target_means and target_errors differ in length.
C10_PairedOrRejected ==
    /\ Len(args.target_means) # Len(args.target_errors) => status # "ok"
    /\ status = "ok" =>
         /\ Len(out.ratio) = Len(args.target_means)
         /\ Len(out.ratio_error) = Len(out.ratio)

----
\* create_histograms_batch

\* Line 41: a channel with fewer filtered events than this is left out.
MinSamples == 100
\* Blocks of equal events a stream is built from; requested channels; bins.
MaxBlocks == 3
MaxChannels == 2
MaxBins == 2

Pending == [tag |-> "pending", channel |-> 0, hist |-> <<>>, count |-> 0]
None == [tag |-> "none", channel |-> 0, hist |-> <<>>, count |-> 0]
Some(channel_id, hist, count) ==
    [tag |-> "some", channel |-> channel_id, hist |-> hist, count |-> count]

\* Line 33 with range_max included.
KeepsClosedRange(qtc_val, ch_id, channel_id) ==
    /\ ch_id = channel_id
    /\ qtc_val >= args.range_min
    /\ qtc_val <= args.range_max

\* Line 33
Keeps(qtc_val, ch_id, channel_id) ==
    /\ ch_id = channel_id
    /\ qtc_val >= args.range_min
    /\ qtc_val < args.range_max

\* Lines 29-39: the positions of the events kept for channel_id; their values
\* are filtered_data (zip stops at the shorter of the two arrays).
Kept(channel_id) ==
    {i \in DOMAIN args.qtc_data \cap DOMAIN args.channel_data :
        Keeps(args.qtc_data[i], args.channel_data[i], channel_id)}

\* Line 21
BinWidth == FDiv(F(args.range_max - args.range_min), F(args.bins))

\* `as usize`: truncation toward zero, NaN and negatives to 0, saturating
\* above (any index >= bins is dropped at line 49, so bins stands for it).
AsUsize(x) ==
    IF IsNaN(x) THEN 0
    ELSE IF ~IsFin(x) THEN (IF x.n > 0 THEN args.bins ELSE 0)
    ELSE IF x.n < 0 THEN 0
    ELSE x.n \div x.d

\* Line 48.  The f64 quotient of the last value below range_max can round up
\* to bins itself; args.edge_rounds_up says whether it does in this call.
BinIndex(value, bin_width) ==
    IF args.edge_rounds_up /\ args.bins > 0 /\ value = args.range_max - 1
    THEN args.bins
    ELSE AsUsize(FDiv(F(value - args.range_min), bin_width))

\* Lines 46-52: every kept event adds 1 to the bin of its index when that
\* index is below bins; hist[b] for the 0-based bin b is hist[b + 1] here.
Histogram(kept) ==
    LET bin_width == BinWidth
        idx == [v \in {args.qtc_data[i] : i \in kept} |-> BinIndex(v, bin_width)]
    IN  [b \in 1..args.bins |->
            Cardinality({i \in kept : idx[args.qtc_data[i]] = b - 1})]

\* A threshold test that also drops a channel of exactly MinSamples events.
TooFewInclusive(n) == n <= MinSamples

\* Line 41
TooFew(n) == n < MinSamples

\* The closure of lines 27-55 applied to one requested channel.
HistOfChannel(channel_id) ==
    LET filtered == Kept(channel_id)
    IN  IF TooFew(Cardinality(filtered)) THEN None
        ELSE Some(channel_id, Histogram(filtered), Cardinality(filtered))

\* A pool thread runs the closure for one index and writes the slot of that
\* index; the indices are done in any order.
HistWorker(i) ==
    /\ status = "running"
    /\ slots[i] = Pending
    /\ slots' = [slots EXCEPT ![i] = HistOfChannel(args.channels[i])]
    /\ UNCHANGED <<args, next, local, out, src, status>>

\* Lines 59-63: insert the collected results, in index order, into the map.
RECURSIVE InsertAll(_, _, _)
InsertAll(results, rs, i) ==
    IF i > Len(rs) THEN results
    ELSE IF rs[i].tag # "some" THEN InsertAll(results, rs, i + 1)
    ELSE InsertAll(
            [c \in DOMAIN results \cup {rs[i].channel} |->
                IF c = rs[i].channel
                THEN [hist |-> rs[i].hist, count |-> rs[i].count]
                ELSE results[c]],
            rs, i + 1)

HistCollect ==
    /\ status = "running"
    /\ \A i \in DOMAIN slots : slots[i] # Pending
    /\ out' = InsertAll(<<>>, slots, 1)
    /\ status' = "ok"
    /\ UNCHANGED <<args, next, local, slots, src>>

\* The values (f = 2) or the channel ids (f = 3) of a stream of blocks, a
\* block k being k[1] copies of the event (value k[2], channel k[3]).
RECURSIVE Flatten(_, _)
Flatten(ks, f) ==
    IF ks = <<>> THEN <<>>
    ELSE [i \in 1..Head(ks)[1] |-> Head(ks)[f]] \o Flatten(Tail(ks), f)

BlockSizes == {1, MinSamples - 1}
\* (value, channel) of the events: channel 1 below, at the last value below
\* and at range_max; channel 2 in range.
StreamEvents == {<<0, 1>>, <<3, 1>>, <<4, 1>>, <<0, 2>>}
BlockKinds == {<<n, e[1], e[2]>> : n \in BlockSizes, e \in StreamEvents}
Rank(k) == (k[1] * 10 + k[2]) * 10 + k[3]

\* Streams of at most MaxBlocks blocks, the blocks in ascending rank.
Streams == {ks \in SeqsUpTo(BlockKinds, MaxBlocks) :
               \A i \in DOMAIN ks : \A j \in DOMAIN ks :
                   i < j => Rank(ks[i]) <= Rank(ks[j])}

\* Requested channels: ascending ids, 3 never occurs in the stream.
Selectors == {s \in SeqsUpTo({1, 2, 3}, MaxChannels) :
                 \A i \in DOMAIN s : \A j \in DOMAIN s : i < j => s[i] < s[j]}

InitHist ==
    /\ \E bs \in Streams, sel \in Selectors,
          b \in 0..MaxBins, e \in BOOLEAN :
         /\ args = [qtc_data |-> Flatten(bs, 2),
                    channel_data |-> Flatten(bs, 3),
                    channels |-> sel,
                    bins |-> b,
                    range_min |-> 0,
                    range_max |-> 4,
                    edge_rounds_up |-> e]
         /\ slots = [i \in DOMAIN sel |-> Pending]
    /\ next = 1
    /\ local = [w \in Workers |-> <<>>]
    /\ out = NoValue
    /\ src = NoValue
    /\ status = "running"

NextHist == (\E i \in DOMAIN slots : HistWorker(i)) \/ HistCollect

SpecHist == InitHist /\ [][NextHist]_vars

\* Events of the stream of channel c whose value lies in [range_min, range_max).
MatchCount(c) ==
    Cardinality({i \in DOMAIN args.qtc_data :
        /\ args.channel_data[i] = c
        /\ args.range_min <= args.qtc_data[i]
        /\ args.qtc_data[i] < args.range_max})

Requested == {args.channels[i] : i \in DOMAIN args.channels}

\* C4: the keys of the returned map are exactly the requested channels with at
\* least 100 matching in-range events, in whatever order the channels were done.
C4_KeysAreChannelsAtThreshold ==
    status = "ok" => DOMAIN out = {c \in Requested : MatchCount(c) >= 100}

\* A returned map holding a channel of exactly 100 matching events and lacking
\* a requested channel of 99.
C4_Witness ==
    /\ status = "ok"
    /\ \E c, d \in Requested :
         /\ MatchCount(c) = 100 /\ c \in DOMAIN out
         /\ MatchCount(d) = 99 /\ d \notin DOMAIN out

\* C5: for every channel of the map, sample_count is the number of matching
\* events with value in [range_min, range_max), counts has bin_count entries
\* and sum(counts) <= sample_count.
C5_CountsConserved ==
    status = "ok" =>
        \A c \in DOMAIN out :
            /\ out[c].count = MatchCount(c)
            /\ Len(out[c].hist) = args.bins
            /\ SumSeq(out[c].hist) <= out[c].count

\* A channel of the map with an event at range_max (not counted) and fewer
\* binned events than sample_count.
C5_Witness ==
    /\ status = "ok"
    /\ \E c \in DOMAIN out :
         /\ \E i \in DOMAIN args.qtc_data :
              args.channel_data[i] = c /\ args.qtc_data[i] = args.range_max
         /\ args.bins = 2
         /\ out[c].hist[1] > 0
         /\ SumSeq(out[c].hist) < out[c].count

====
